---- MODULE Spec2Model ----
(***************************************************************************)
(* The wallet of erb-client (client/worm_client.go): NewClient and the     *)
(* signing operations Sign, SignBuyer, SignSeller1, SignSeller2,           *)
(* SignExchanger and SignDelegate, and the RPC-backed operations of        *)
(* Wormholes (ChainID ... GetActiveLivePool).                              *)
(*                                                                         *)
(* A Go string is modelled as a TLA+ string, one character per byte or     *)
(* rune; `+` on strings is \o.  The elliptic-curve primitives of           *)
(* go-ethereum (crypto.HexToECDSA, crypto.Sign) and the digest are         *)
(* modelled symbolically: a digest is a term over the bytes it was         *)
(* computed from and a signature is 65 bytes, the first 64 of which are    *)
(* terms over the key and the digest and the last the recovery id.         *)
(***************************************************************************)
EXTENDS Integers, Sequences, FiniteSets, TLC

VARIABLES running, worm, last, dialed, rpc, procs

vars == <<running, worm, last, dialed, rpc, procs>>

\* Go's nil (a nil pointer, a nil slice, a nil error).
Nil == "nil"

---------------------------------------------------------------------------
(* Inputs.                                                                 *)

\* Private keys handed to NewClient and Sign: two well-formed keys (64 hex
\* digits in the program, abbreviated here) and one that is not a key (the
\* tests hand NewClient an address as priKey).
buyerPriKey == "057b05b9"
sellerPriKey == "132a8ed2"
exchangeAddress1 == "0xC83279D0"

WellFormedKeys == {buyerPriKey, sellerPriKey}
Keys == WellFormedKeys \cup {exchangeAddress1}

endpoint == "http://192.168.4.240:8560"
RawURLs == {"", endpoint}

\* A byte that is not valid UTF-8 (0xff), and the rune U+FFFD.
BadByte == "#"
ReplacementRune == "?"

\* Field strings of the signing operations, per parameter.
Amounts == {"", "0xde0"}
NFTAddresses == {"", "0x02"}
Exchangers == {"0x8b"}
BlockNumbers == {"0xa", "0x0a"}
Sellers == {"", "0x00"}
Royalties == {"0xa", "0x0a"}
MetaURLs == {"/ipfs/q", "/ipfs/" \o BadByte}
ExclusiveFlags == {"0"}
ExchangerOwners == {"0xae", ""}
Tos == {"0xc8"}
Addresses == {"0x1f", "0x1f4"}
PledgeAccounts == {"c0", "4c0"}
Datas == {"", "0xde0"}

---------------------------------------------------------------------------
(* The primitives the signing operations call.                             *)

\* tools.SignHash: the digest of the bytes to sign, as a term over them.
SignHash(data) == <<"SignHash", data>>

ErrInvalidKey == "invalid private key"
ErrSignFailed == "signing failed"

\* crypto.HexToECDSA(priKey): the parsed key, or an error for a string that
\* is not the hex encoding of a private key.
HexToECDSA(priKey) ==
  IF priKey \in WellFormedKeys
    THEN [key |-> [D |-> priKey], err |-> Nil]
    ELSE [key |-> Nil, err |-> ErrInvalidKey]

\* Go's index of the recovery id in a signature, the amount added to it,
\* and the width of a byte.
RecoveryIDOffset == 64
RecoveryBias == 27
ByteModulus == 256

\* The [R || S || V] signature of digest under key with recovery id v: 65
\* bytes, R and S as terms over the key and the digest.
RawSignature(key, digest, v) ==
  [i \in 1..(RecoveryIDOffset + 1) |->
     IF i <= RecoveryIDOffset THEN [k |-> key.D, d |-> digest, i |-> i] ELSE v]

\* crypto.Sign(digest, key): every result the primitive can give, a
\* signature with recovery id 0 or 1, or an error.
CryptoSign(digest, key) ==
  {[digest |-> digest, sig |-> RawSignature(key, digest, v), v |-> <<v>>,
    err |-> Nil] : v \in {0, 1}}
    \cup {[digest |-> digest, sig |-> <<>>, v |-> <<>>, err |-> ErrSignFailed]}

\* Mutants of AddRecoveryBias: the bias added twice; no bias added.
AddRecoveryBiasTwice(signature) ==
  [signature EXCEPT ![RecoveryIDOffset + 1] =
     (((@ + RecoveryBias) % ByteModulus) + RecoveryBias) % ByteModulus]

NoRecoveryBias(signature) == signature

\* signature[64] += 27, on a byte.
AddRecoveryBias(signature) ==
  [signature EXCEPT ![RecoveryIDOffset + 1] = (@ + RecoveryBias) % ByteModulus]

\* hexutil.Encode(b): "0x" and two hex digits per byte; a byte's two digits
\* are one element of the encoded string, a term over the byte.
HexEncode(b) == <<"0x">> \o [i \in 1..Len(b) |-> <<"hex", b[i]>>]

\* hexutil.Decode, the inverse of HexEncode; Nil for what is no encoding.
HexDecode(h) ==
  IF Len(h) = 0 \/ h[1] # "0x" THEN Nil
  ELSE [i \in 1..(Len(h) - 1) |-> h[i + 1][2]]

\* The string encoding/json writes for a Go string: every byte that is not
\* valid UTF-8 is replaced by U+FFFD (the escapes it writes for other
\* characters decode to the characters themselves).
RECURSIVE JSONString(_)
JSONString(s) ==
  IF Len(s) = 0 THEN ""
  ELSE (IF SubSeq(s, 1, 1) = BadByte THEN ReplacementRune ELSE SubSeq(s, 1, 1))
         \o JSONString(SubSeq(s, 2, Len(s)))

\* Mutant of Marshal: a struct with an empty field is rejected.
MarshalRejectingEmpty(v) ==
  IF \E f \in DOMAIN v : v[f] = ""
    THEN [result |-> <<>>, err |-> "empty field"]
    ELSE [result |-> [f \in DOMAIN v |->
                        IF f = "Sig" THEN v[f] ELSE JSONString(v[f])],
          err |-> Nil]

\* json.Marshal of a struct of strings, as the key-value object a reader
\* decodes from it.  Sig holds hex digits, which the encoding leaves as
\* they are.  Marshal has no error for such a struct.
Marshal(v) ==
  [result |-> [f \in DOMAIN v |-> IF f = "Sig" THEN v[f] ELSE JSONString(v[f])],
   err |-> Nil]

---------------------------------------------------------------------------
(* NewClient and the client it returns.                                    *)

\* The zero client: no key, no connection.
NoClient == [priKey |-> "", c |-> Nil]

\* rpc.Dial(rawurl): the connection, or an error.
Dial(rawurl) == {[client |-> "rpc.Client", err |-> Nil],
                 [client |-> Nil, err |-> "dial failed"]}

\* Mutant of NewClient: a failed dial is logged and the zero client returned.
NewClientReturningUnconnected(priKey, rawurl) ==
  IF rawurl = ""
    THEN {[fatal |-> FALSE, worm |-> [priKey |-> priKey, c |-> Nil],
           dials |-> 0, err |-> Nil]}
    ELSE {IF d.err # Nil
            THEN [fatal |-> FALSE, worm |-> NoClient, dials |-> 1, err |-> d.err]
            ELSE [fatal |-> FALSE, worm |-> [priKey |-> priKey, c |-> d.client],
                  dials |-> 1, err |-> d.err]
          : d \in Dial(rawurl)}

\* Mutant of NewClient: dials whatever rawurl is.
NewClientAlwaysDials(priKey, rawurl) ==
  {IF d.err # Nil
     THEN [fatal |-> TRUE, worm |-> NoClient, dials |-> 1, err |-> d.err]
     ELSE [fatal |-> FALSE, worm |-> [priKey |-> priKey, c |-> d.client],
           dials |-> 1, err |-> d.err]
   : d \in Dial(rawurl)}

\* NewClient(priKey, rawurl): the results it can have.  With an empty rawurl
\* the client holds the key and no connection; otherwise it dials, and a
\* failed dial ends the process in log.Fatalf.
NewClient(priKey, rawurl) ==
  IF rawurl = ""
    THEN {[fatal |-> FALSE, worm |-> [priKey |-> priKey, c |-> Nil],
           dials |-> 0, err |-> Nil]}
    ELSE {IF d.err # Nil
            THEN [fatal |-> TRUE, worm |-> NoClient, dials |-> 1, err |-> d.err]
            ELSE [fatal |-> FALSE, worm |-> [priKey |-> priKey, c |-> d.client],
                  dials |-> 1, err |-> d.err]
          : d \in Dial(rawurl)}

\* What the latest NewClient was given and did: its arguments, the number of
\* rpc.Dial calls it made and the error of the dial.
Dialed(priKey, rawurl, r) ==
  [priKey |-> priKey, rawurl |-> rawurl, dials |-> r.dials, err |-> r.err]

\* No RPC-backed operation invoked.
NoRPC == [op |-> "none", args |-> <<>>, calls |-> 0, reply |-> "none",
          gerr |-> Nil, ret |-> Nil, err |-> Nil, fault |-> FALSE]

---------------------------------------------------------------------------
(* One invocation of a signing operation, as the record of what it did:    *)
(* the key its receiver held, the key string it parsed and how often, the  *)
(* message it composed, the digest the primitive was handed and how        *)
(* often, the recovery id the primitive gave (v: <<>> for none), how often *)
(* it marshalled, and what it returned (ret, err).  A nil slice is <<>>.   *)

Entered(op, w, args) ==
  [op |-> op, held |-> w.priKey, args |-> args, key |-> "", parses |-> 0,
   msgs |-> 0, signs |-> 0, marshals |-> 0, msg |-> "", digest |-> <<>>,
   v |-> <<>>, ret |-> <<>>, err |-> Nil]

NoCall == Entered("none", NoClient, <<>>)

\* Mutant of Sign: the key the wallet holds is parsed, not the argument.
SignWithHeldKey(w, data, priKey) ==
  LET k  == HexToECDSA(w.priKey)
      c1 == [Entered("Sign", w, <<data, priKey>>)
               EXCEPT !.key = w.priKey, !.parses = @ + 1]
  IN IF k.err # Nil THEN {[c1 EXCEPT !.err = k.err]}
     ELSE LET c2 == [c1 EXCEPT !.msg = data, !.msgs = @ + 1]
          IN {IF s.err # Nil
                THEN [c2 EXCEPT !.signs = @ + 1, !.digest = s.digest,
                                !.err = s.err]
                ELSE [c2 EXCEPT !.signs = @ + 1, !.digest = s.digest, !.v = s.v,
                                !.ret = AddRecoveryBias(s.sig)]
              : s \in CryptoSign(SignHash(data), k.key)}

\* Wallet.Sign(data, priKey).
Sign(w, data, priKey) ==
  LET k  == HexToECDSA(priKey)
      c1 == [Entered("Sign", w, <<data, priKey>>)
               EXCEPT !.key = priKey, !.parses = @ + 1]
  IN IF k.err # Nil THEN {[c1 EXCEPT !.err = k.err]}
     ELSE LET c2 == [c1 EXCEPT !.msg = data, !.msgs = @ + 1]
          IN {IF s.err # Nil
                THEN [c2 EXCEPT !.signs = @ + 1, !.digest = s.digest,
                                !.err = s.err]
                ELSE LET signature == AddRecoveryBias(s.sig)
                     IN [c2 EXCEPT !.signs = @ + 1, !.digest = s.digest, !.v = s.v,
                                   !.ret = signature]
              : s \in CryptoSign(SignHash(data), k.key)}

\* Mutants of BuyerMsg: blockNumber and seller exchanged; the message
\* appended to the one composed before; seller left out.
BuyerMsgSwapped(amount, nftAddress, exchanger, blockNumber, seller) ==
  amount \o nftAddress \o exchanger \o seller \o blockNumber

BuyerMsgAppended(amount, nftAddress, exchanger, blockNumber, seller) ==
  last.msg \o amount \o nftAddress \o exchanger \o blockNumber \o seller

BuyerMsgNoSeller(amount, nftAddress, exchanger, blockNumber, seller) ==
  amount \o nftAddress \o exchanger \o blockNumber

\* msg := amount + nftAddress + exchanger + blockNumber + seller
BuyerMsg(amount, nftAddress, exchanger, blockNumber, seller) ==
  amount \o nftAddress \o exchanger \o blockNumber \o seller

\* types2.Buyer{...}
Buyer(amount, nftAddress, exchanger, blockNumber, seller, sig) ==
  [Amount |-> amount, NFTAddress |-> nftAddress, Exchanger |-> exchanger,
   BlockNumber |-> blockNumber, Seller |-> seller, Sig |-> sig]

\* Wallet.SignBuyer(amount, nftAddress, exchanger, blockNumber, seller).
SignBuyer(w, amount, nftAddress, exchanger, blockNumber, seller) ==
  LET k  == HexToECDSA(w.priKey)
      c1 == [Entered("SignBuyer", w,
                     <<amount, nftAddress, exchanger, blockNumber, seller>>)
               EXCEPT !.key = w.priKey, !.parses = @ + 1]
  IN IF k.err # Nil THEN {[c1 EXCEPT !.err = k.err]}
     ELSE LET msg == BuyerMsg(amount, nftAddress, exchanger, blockNumber, seller)
              c2  == [c1 EXCEPT !.msg = msg, !.msgs = @ + 1]
          IN {IF s.err # Nil
                THEN [c2 EXCEPT !.signs = @ + 1, !.digest = s.digest,
                                !.err = s.err]
                ELSE LET signature == AddRecoveryBias(s.sig)
                         buyer == Buyer(amount, nftAddress, exchanger,
                                        blockNumber, seller, HexEncode(signature))
                         m == Marshal(buyer)
                         c3 == [c2 EXCEPT !.signs = @ + 1, !.digest = s.digest, !.v = s.v,
                                          !.marshals = @ + 1]
                     IN IF m.err # Nil THEN [c3 EXCEPT !.err = m.err]
                        ELSE [c3 EXCEPT !.ret = m.result]
              : s \in CryptoSign(SignHash(msg), k.key)}

\* msg := amount + nftAddress + exchanger + blockNumber
Seller1Msg(amount, nftAddress, exchanger, blockNumber) ==
  amount \o nftAddress \o exchanger \o blockNumber

\* types2.Seller1{...}
Seller1(amount, nftAddress, exchanger, blockNumber, sig) ==
  [Amount |-> amount, NFTAddress |-> nftAddress, Exchanger |-> exchanger,
   BlockNumber |-> blockNumber, Sig |-> sig]

\* Wallet.SignSeller1(amount, nftAddress, exchanger, blockNumber).
SignSeller1(w, amount, nftAddress, exchanger, blockNumber) ==
  LET k  == HexToECDSA(w.priKey)
      c1 == [Entered("SignSeller1", w,
                     <<amount, nftAddress, exchanger, blockNumber>>)
               EXCEPT !.key = w.priKey, !.parses = @ + 1]
  IN IF k.err # Nil THEN {[c1 EXCEPT !.err = k.err]}
     ELSE LET msg == Seller1Msg(amount, nftAddress, exchanger, blockNumber)
              c2  == [c1 EXCEPT !.msg = msg, !.msgs = @ + 1]
          IN {IF s.err # Nil
                THEN [c2 EXCEPT !.signs = @ + 1, !.digest = s.digest,
                                !.err = s.err]
                ELSE LET signature == AddRecoveryBias(s.sig)
                         v  == Seller1(amount, nftAddress, exchanger, blockNumber, HexEncode(signature))
                         m  == Marshal(v)
                         c3 == [c2 EXCEPT !.signs = @ + 1, !.digest = s.digest, !.v = s.v,
                                          !.marshals = @ + 1]
                     IN IF m.err # Nil THEN [c3 EXCEPT !.err = m.err]
                        ELSE [c3 EXCEPT !.ret = m.result]
              : s \in CryptoSign(SignHash(msg), k.key)}

\* msg := amount + royalty + metaURL + exclusiveFlag + exchanger + blockNumber
Seller2Msg(amount, royalty, metaURL, exclusiveFlag, exchanger, blockNumber) ==
  amount \o royalty \o metaURL \o exclusiveFlag \o exchanger \o blockNumber

\* types2.Seller2{...}
Seller2(amount, royalty, metaURL, exclusiveFlag, exchanger, blockNumber, sig) ==
  [Amount |-> amount, Royalty |-> royalty, MetaURL |-> metaURL,
   ExclusiveFlag |-> exclusiveFlag, Exchanger |-> exchanger,
   BlockNumber |-> blockNumber, Sig |-> sig]

\* Wallet.SignSeller2(amount, royalty, metaURL, exclusiveFlag, exchanger, blockNumber).
SignSeller2(w, amount, royalty, metaURL, exclusiveFlag, exchanger, blockNumber) ==
  LET k  == HexToECDSA(w.priKey)
      c1 == [Entered("SignSeller2", w,
                     <<amount, royalty, metaURL, exclusiveFlag, exchanger, blockNumber>>)
               EXCEPT !.key = w.priKey, !.parses = @ + 1]
  IN IF k.err # Nil THEN {[c1 EXCEPT !.err = k.err]}
     ELSE LET msg == Seller2Msg(amount, royalty, metaURL, exclusiveFlag, exchanger, blockNumber)
              c2  == [c1 EXCEPT !.msg = msg, !.msgs = @ + 1]
          IN {IF s.err # Nil
                THEN [c2 EXCEPT !.signs = @ + 1, !.digest = s.digest,
                                !.err = s.err]
                ELSE LET signature == AddRecoveryBias(s.sig)
                         v  == Seller2(amount, royalty, metaURL, exclusiveFlag, exchanger, blockNumber, HexEncode(signature))
                         m  == Marshal(v)
                         c3 == [c2 EXCEPT !.signs = @ + 1, !.digest = s.digest, !.v = s.v,
                                          !.marshals = @ + 1]
                     IN IF m.err # Nil THEN [c3 EXCEPT !.err = m.err]
                        ELSE [c3 EXCEPT !.ret = m.result]
              : s \in CryptoSign(SignHash(msg), k.key)}

\* msg := exchangerOwner + to + blockNumber
ExchangerMsg(exchangerOwner, to, blockNumber) ==
  exchangerOwner \o to \o blockNumber

\* types2.ExchangerAuth{...}
ExchangerAuth(exchangerOwner, to, blockNumber, sig) ==
  [ExchangerOwner |-> exchangerOwner, To |-> to, BlockNumber |-> blockNumber,
   Sig |-> sig]

\* Wallet.SignExchanger(exchangerOwner, to, blockNumber).
SignExchanger(w, exchangerOwner, to, blockNumber) ==
  LET k  == HexToECDSA(w.priKey)
      c1 == [Entered("SignExchanger", w,
                     <<exchangerOwner, to, blockNumber>>)
               EXCEPT !.key = w.priKey, !.parses = @ + 1]
  IN IF k.err # Nil THEN {[c1 EXCEPT !.err = k.err]}
     ELSE LET msg == ExchangerMsg(exchangerOwner, to, blockNumber)
              c2  == [c1 EXCEPT !.msg = msg, !.msgs = @ + 1]
          IN {IF s.err # Nil
                THEN [c2 EXCEPT !.signs = @ + 1, !.digest = s.digest,
                                !.err = s.err]
                ELSE LET signature == AddRecoveryBias(s.sig)
                         v  == ExchangerAuth(exchangerOwner, to, blockNumber, HexEncode(signature))
                         m  == Marshal(v)
                         c3 == [c2 EXCEPT !.signs = @ + 1, !.digest = s.digest, !.v = s.v,
                                          !.marshals = @ + 1]
                     IN IF m.err # Nil THEN [c3 EXCEPT !.err = m.err]
                        ELSE [c3 EXCEPT !.ret = m.result]
              : s \in CryptoSign(SignHash(msg), k.key)}

\* msg := address + pledgeAcoount
DelegateMsg(address, pledgeAcoount) == address \o pledgeAcoount

\* Mutant of SignDelegate: a failed primitive is invoked a second time.
SignDelegateRetrying(w, address, pledgeAcoount) ==
  LET k  == HexToECDSA(w.priKey)
      c1 == [Entered("SignDelegate", w, <<address, pledgeAcoount>>)
               EXCEPT !.key = w.priKey, !.parses = @ + 1]
  IN IF k.err # Nil THEN {[c1 EXCEPT !.err = k.err]}
     ELSE LET msg == address \o pledgeAcoount
              c2  == [c1 EXCEPT !.msg = msg, !.msgs = @ + 1]
          IN UNION {IF s.err # Nil
                      THEN {IF t.err # Nil
                              THEN [c2 EXCEPT !.signs = @ + 2,
                                              !.digest = t.digest, !.err = t.err]
                              ELSE [c2 EXCEPT !.signs = @ + 2,
                                              !.digest = t.digest, !.v = t.v,
                                              !.ret = HexEncode(AddRecoveryBias(t.sig))]
                            : t \in CryptoSign(SignHash(msg), k.key)}
                      ELSE {[c2 EXCEPT !.signs = @ + 1, !.digest = s.digest,
                                       !.v = s.v,
                                       !.ret = HexEncode(AddRecoveryBias(s.sig))]}
                    : s \in CryptoSign(SignHash(msg), k.key)}

\* Wallet.SignDelegate(address, pledgeAcoount): returns the bytes of the
\* hex-encoded signature.
SignDelegate(w, address, pledgeAcoount) ==
  LET k  == HexToECDSA(w.priKey)
      c1 == [Entered("SignDelegate", w,
                     <<address, pledgeAcoount>>)
               EXCEPT !.key = w.priKey, !.parses = @ + 1]
  IN IF k.err # Nil THEN {[c1 EXCEPT !.err = k.err]}
     ELSE LET msg == DelegateMsg(address, pledgeAcoount)
              c2  == [c1 EXCEPT !.msg = msg, !.msgs = @ + 1]
          IN {IF s.err # Nil
                THEN [c2 EXCEPT !.signs = @ + 1, !.digest = s.digest,
                                !.err = s.err]
                ELSE LET signature == AddRecoveryBias(s.sig)
                     IN [c2 EXCEPT !.signs = @ + 1, !.digest = s.digest, !.v = s.v,
                                   !.ret = HexEncode(signature)]
              : s \in CryptoSign(SignHash(msg), k.key)}

---------------------------------------------------------------------------
(* The RPC-backed operations.  An invocation is recorded as the operation, *)
(* its arguments, the number of gateway calls it issued (CallContext), the *)
(* kind of reply and the error CallContext gave, what the operation        *)
(* returned and whether it faulted on a nil connection.  A returned pointer or slice is Nil, "zero" (a pointer to   *)
(* the zero value), "partial" (a partly decoded value) or "value".         *)

Accounts == {"0xED8c", ""}
TxHashes == {"0x5a", ""}
Blocks == {"0", "10"}
Txs == {"tx", "negative"}
BigBlockNumbers == {"nil", "-1", "10"}

\* Errors a gateway call comes back with; the error of a reply that cannot
\* be decoded into the result; ethereum.NotFound; the operations' own errors.
GatewayErrors == {"connection refused", "method not found"}
ErrDecode == "json: cannot unmarshal"
NotFound == "not found"
ErrNoSignature == "server returned transaction without signature"
ErrNetVersion == "invalid net_version result"
ErrEncode == "rlp: cannot encode negative big.Int"

\* worm.c.CallContext(ctx, &result, method, ...) on a connection: the reply,
\* the result variable afterwards and the error.  target is the kind of the
\* result variable: "value" (a value that starts zero), "pointer" or
\* "slice" (start nil), "none" (no result asked for).
CallContext(target) ==
  LET unset == IF target = "value" THEN "zero" ELSE Nil
  IN {[reply |-> "error", result |-> unset, err |-> e] : e \in GatewayErrors}
       \cup {[reply |-> "null", result |-> unset, err |-> Nil]}
       \cup (IF target = "none" THEN {}
             ELSE {[reply |-> "value", result |-> "value", err |-> Nil],
                   [reply |-> "undecodable",
                    result |-> IF target = "pointer" THEN "partial" ELSE unset,
                    err |-> ErrDecode]})

\* An invocation that issued one gateway call, and one that faulted on the
\* nil connection before any call was issued.
Result(op, args, g, ret, err) ==
  [op |-> op, args |-> args, calls |-> 1, reply |-> g.reply, gerr |-> g.err,
   ret |-> ret, err |-> err, fault |-> FALSE]

\* Mutant of Faulted: a missing connection is reported as an error.
FaultedAsError(op, args) ==
  [NoRPC EXCEPT !.op = op, !.args = args, !.err = "no connection"]

Faulted(op, args) == [NoRPC EXCEPT !.op = op, !.args = args, !.fault = TRUE]

\* worm.c.Close(): on the connection of an HTTP endpoint it does nothing;
\* no gateway call, no result.
CloseConnect(w) ==
  IF w.c = Nil THEN {Faulted("CloseConnect", <<>>)}
  ELSE {[NoRPC EXCEPT !.op = "CloseConnect"]}

ChainID(w) ==
  IF w.c = Nil THEN {Faulted("ChainID", <<>>)}
  ELSE {IF g.err # Nil THEN Result("ChainID", <<>>, g, Nil, g.err)
        ELSE Result("ChainID", <<>>, g, g.result, g.err)
        : g \in CallContext("value")}

\* Mutant of BlockNumber: a block number obtained before is returned again
\* without a call.
BlockNumberCached(w) ==
  IF w.c = Nil THEN {Faulted("BlockNumber", <<>>)}
  ELSE IF rpc.op = "BlockNumber" /\ rpc.err = Nil
    THEN {[rpc EXCEPT !.calls = 0]}
  ELSE {Result("BlockNumber", <<>>, g, g.result, g.err)
        : g \in CallContext("value")}

BlockNumber(w) ==
  IF w.c = Nil THEN {Faulted("BlockNumber", <<>>)}
  ELSE {Result("BlockNumber", <<>>, g, g.result, g.err)
        : g \in CallContext("value")}

TransactionInBlock(w, blockHash, index) ==
  LET args == <<blockHash, index>>
  IN IF w.c = Nil THEN {Faulted("TransactionInBlock", args)}
     ELSE UNION {IF g.err # Nil
                   THEN {Result("TransactionInBlock", args, g, Nil, g.err)}
                 ELSE IF g.result = Nil
                   THEN {Result("TransactionInBlock", args, g, Nil, NotFound)}
                 ELSE {Result("TransactionInBlock", args, g, Nil, ErrNoSignature),
                       Result("TransactionInBlock", args, g, g.result, g.err)}
                 : g \in CallContext("pointer")}

PendingNonceAt(w, account) ==
  IF w.c = Nil THEN {Faulted("PendingNonceAt", <<account>>)}
  ELSE {Result("PendingNonceAt", <<account>>, g, g.result, g.err)
        : g \in CallContext("value")}

SuggestGasPrice(w) ==
  IF w.c = Nil THEN {Faulted("SuggestGasPrice", <<>>)}
  ELSE {IF g.err # Nil THEN Result("SuggestGasPrice", <<>>, g, Nil, g.err)
        ELSE Result("SuggestGasPrice", <<>>, g, g.result, Nil)
        : g \in CallContext("value")}

\* tx.MarshalBinary(): a transaction with a negative amount cannot be encoded.
MarshalBinary(tx) ==
  IF tx = "negative" THEN [data |-> Nil, err |-> ErrEncode]
  ELSE [data |-> <<"raw", tx>>, err |-> Nil]

SendTransaction(w, tx) ==
  LET b == MarshalBinary(tx)
  IN IF b.err # Nil
       THEN {[NoRPC EXCEPT !.op = "SendTransaction", !.args = <<tx>>,
                           !.err = b.err]}
     ELSE IF w.c = Nil THEN {Faulted("SendTransaction", <<tx>>)}
     ELSE {Result("SendTransaction", <<tx>>, g, Nil, g.err)
           : g \in CallContext("none")}

NetworkID(w) ==
  IF w.c = Nil THEN {Faulted("NetworkID", <<>>)}
  ELSE UNION {IF g.err # Nil THEN {Result("NetworkID", <<>>, g, Nil, g.err)}
              ELSE IF g.result = "zero"
                THEN {Result("NetworkID", <<>>, g, Nil, ErrNetVersion)}
              ELSE {Result("NetworkID", <<>>, g, Nil, ErrNetVersion),
                    Result("NetworkID", <<>>, g, g.result, Nil)}
              : g \in CallContext("value")}

Balance(w, account) ==
  IF w.c = Nil THEN {Faulted("Balance", <<account>>)}
  ELSE {Result("Balance", <<account>>, g, g.result, g.err)
        : g \in CallContext("value")}

toBlockNumArg(number) ==
  IF number = "nil" THEN "latest"
  ELSE IF number = "-1" THEN "pending"
  ELSE "0xa"

BalanceAt(w, account, blockNumber) ==
  LET args == <<account, toBlockNumArg(blockNumber)>>
  IN IF w.c = Nil THEN {Faulted("BalanceAt", args)}
     ELSE {Result("BalanceAt", args, g, g.result, g.err)
           : g \in CallContext("value")}

\* The shape of TransactionReceipt, GetValidators, GetAccountInfo and
\* GetBlockBeneficiaryAddressByNumber:
\*   err := worm.c.CallContext(ctx, &r, ...)
\*   if err == nil { if r == nil { return nil, ethereum.NotFound } }
\*   return r, err
NotFoundOnNull(op, w, args) ==
  IF w.c = Nil THEN {Faulted(op, args)}
  ELSE {IF g.err = Nil /\ g.result = Nil THEN Result(op, args, g, Nil, NotFound)
        ELSE Result(op, args, g, g.result, g.err)
        : g \in CallContext("pointer")}

\* Mutant of TransactionReceipt: return r, err with no check for nil.
TransactionReceiptUnchecked(w, txHash) ==
  IF w.c = Nil THEN {Faulted("TransactionReceipt", <<txHash>>)}
  ELSE {Result("TransactionReceipt", <<txHash>>, g, g.result, g.err)
        : g \in CallContext("pointer")}

TransactionReceipt(w, txHash) ==
  NotFoundOnNull("TransactionReceipt", w, <<txHash>>)

GetValidators(w, blockNumber) ==
  NotFoundOnNull("GetValidators", w, <<blockNumber>>)

GetAccountInfo(w, address, block) ==
  NotFoundOnNull("GetAccountInfo", w, <<address, block>>)

GetBlockBeneficiaryAddressByNumber(w, block) ==
  NotFoundOnNull("GetBlockBeneficiaryAddressByNumber", w, <<block>>)

QueryMinerProxy(w, number, account) ==
  LET args == <<number, account>>
  IN IF w.c = Nil THEN {Faulted("QueryMinerProxy", args)}
     ELSE {IF g.err # Nil THEN Result("QueryMinerProxy", args, g, Nil, g.err)
           ELSE Result("QueryMinerProxy", args, g, g.result, g.err)
           : g \in CallContext("slice")}

GetActiveLivePool(w, number) ==
  IF w.c = Nil THEN {Faulted("GetActiveLivePool", <<number>>)}
  ELSE {IF g.err # Nil THEN Result("GetActiveLivePool", <<number>>, g, Nil, g.err)
        ELSE Result("GetActiveLivePool", <<number>>, g, g.result, g.err)
        : g \in CallContext("pointer")}

---------------------------------------------------------------------------
(* Callers that sign at the same time, each on a client of its own, one    *)
(* statement of its operation at a time.                                   *)

Callers == {"buyer", "seller", "exchange"}

CallerKey(p) ==
  CASE p = "buyer" -> buyerPriKey
    [] p = "seller" -> sellerPriKey
    [] p = "exchange" -> exchangeAddress1

CallerOp(p) ==
  CASE p = "buyer" -> "SignBuyer"
    [] p = "seller" -> "SignSeller2"
    [] p = "exchange" -> "SignExchanger"

\* The field tuples a caller signs: as in TestFoundryExchangeInitiated, with
\* a block number of its own choice.
CallerArgs(p) ==
  CASE p = "buyer" -> {<<"0xde0", "", "0x8b", b, "">> : b \in BlockNumbers}
    [] p = "seller" ->
         {<<"0xde0", "0xa", "/ipfs/q", "0", "0x8b", b>> : b \in BlockNumbers}
    [] p = "exchange" -> {<<"0xae", "0xc8", b>> : b \in BlockNumbers}

\* Mutant of MsgOf: the message is built in a buffer the callers share.
MsgOfShared(op, args) ==
  IF procs["buyer"].args # <<>> THEN BuyerMsg(procs["buyer"].args[1],
       procs["buyer"].args[2], procs["buyer"].args[3], procs["buyer"].args[4],
       procs["buyer"].args[5])
  ELSE ""

\* msg := ... of operation op.
MsgOf(op, args) ==
  CASE op = "SignBuyer" -> BuyerMsg(args[1], args[2], args[3], args[4], args[5])
    [] op = "SignSeller2" ->
         Seller2Msg(args[1], args[2], args[3], args[4], args[5], args[6])
    [] op = "SignExchanger" -> ExchangerMsg(args[1], args[2], args[3])

\* The struct operation op marshals.
StructOf(op, args, sig) ==
  CASE op = "SignBuyer" ->
         Buyer(args[1], args[2], args[3], args[4], args[5], sig)
    [] op = "SignSeller2" ->
         Seller2(args[1], args[2], args[3], args[4], args[5], args[6], sig)
    [] op = "SignExchanger" -> ExchangerAuth(args[1], args[2], args[3], sig)

\* Operation op as a whole, on wallet w.
HandlerOf(op, w, args) ==
  CASE op = "SignBuyer" ->
         SignBuyer(w, args[1], args[2], args[3], args[4], args[5])
    [] op = "SignSeller2" ->
         SignSeller2(w, args[1], args[2], args[3], args[4], args[5], args[6])
    [] op = "SignExchanger" -> SignExchanger(w, args[1], args[2], args[3])

\* A caller's wallet and the locals of its invocation.
Idle(p) ==
  [pc |-> "idle", op |-> CallerOp(p), w |-> [priKey |-> CallerKey(p), c |-> Nil],
   args |-> <<>>, key |-> <<>>, msg |-> "", signature |-> <<>>, ret |-> <<>>,
   err |-> Nil]

Moved(p, f) == procs' = [procs EXCEPT ![p] = f] /\ UNCHANGED <<running, worm, last, dialed, rpc>>

\* The call, with its arguments.
Enter(p) ==
  /\ procs[p].pc = "idle"
  /\ \E args \in CallerArgs(p) :
       Moved(p, [procs[p] EXCEPT !.pc = "entered", !.args = args])

\* key, err := crypto.HexToECDSA(w.priKey); if err != nil { return nil, err }
ParseKey(p) ==
  /\ procs[p].pc = "entered"
  /\ LET k == HexToECDSA(procs[p].w.priKey)
     IN IF k.err # Nil
          THEN Moved(p, [procs[p] EXCEPT !.pc = "done", !.err = k.err])
          ELSE Moved(p, [procs[p] EXCEPT !.pc = "parsed", !.key = k.key])

\* msg := ...
BuildMsg(p) ==
  /\ procs[p].pc = "parsed"
  /\ Moved(p, [procs[p] EXCEPT !.pc = "built",
                               !.msg = MsgOf(procs[p].op, procs[p].args)])

\* signature, err := crypto.Sign(tools.SignHash([]byte(msg)), key)
CallSign(p) ==
  /\ procs[p].pc = "built"
  /\ \E s \in CryptoSign(SignHash(procs[p].msg), procs[p].key) :
       IF s.err # Nil
         THEN Moved(p, [procs[p] EXCEPT !.pc = "done", !.err = s.err])
         ELSE Moved(p, [procs[p] EXCEPT !.pc = "signed", !.signature = s.sig])

\* signature[64] += 27
Bias(p) ==
  /\ procs[p].pc = "signed"
  /\ Moved(p, [procs[p] EXCEPT !.pc = "biased",
                               !.signature = AddRecoveryBias(@)])

\* The struct, json.Marshal, return.
MarshalPayload(p) ==
  /\ procs[p].pc = "biased"
  /\ LET m == Marshal(StructOf(procs[p].op, procs[p].args,
                                HexEncode(procs[p].signature)))
     IN IF m.err # Nil
          THEN Moved(p, [procs[p] EXCEPT !.pc = "done", !.err = m.err])
          ELSE Moved(p, [procs[p] EXCEPT !.pc = "done", !.ret = m.result])

---------------------------------------------------------------------------
(* The state machine.  worm is the client the caller holds and last the    *)
(* record of the latest signing invocation.  running is FALSE once         *)
(* log.Fatalf has ended the process.  dialed records the latest NewClient  *)
(* and rpc the latest invocation of an RPC-backed operation.               *)

Init ==
  /\ running = TRUE
  /\ \E priKey \in Keys, rawurl \in RawURLs :
       \E r \in NewClient(priKey, rawurl) :
         ~r.fatal /\ worm = r.worm /\ dialed = Dialed(priKey, rawurl, r)
  /\ last = NoCall
  /\ rpc = NoRPC
  /\ procs = [p \in Callers |-> Idle(p)]

\* worm := NewClient(priKey, rawurl)
NewClientStep ==
  /\ running
  /\ \E priKey \in Keys, rawurl \in RawURLs :
       \E r \in NewClient(priKey, rawurl) :
         /\ dialed' = Dialed(priKey, rawurl, r)
         /\ IF r.fatal
              THEN /\ running' = FALSE
                   /\ worm' = NoClient
                   /\ last' = NoCall
                   /\ rpc' = NoRPC
              ELSE /\ worm' = r.worm
                   /\ UNCHANGED <<running, last, rpc>>
         /\ UNCHANGED procs

\* Mutant of Returned: the wallet keeps the key the invocation parsed.
ReturnedKeepingKey(c) ==
  /\ last' = c
  /\ worm' = [worm EXCEPT !.priKey = IF c.parses > 0 THEN c.key ELSE @]
  /\ UNCHANGED <<running, dialed, rpc, procs>>

\* A signing invocation ends with record c.
Returned(c) ==
  /\ last' = c
  /\ UNCHANGED <<running, worm, dialed, rpc, procs>>

SignStep ==
  /\ running
  /\ \E data \in Datas, priKey \in Keys :
       \E c \in Sign(worm, data, priKey) : Returned(c)

SignBuyerStep ==
  /\ running
  /\ \E amount \in Amounts, nftAddress \in NFTAddresses, exchanger \in Exchangers,
        blockNumber \in BlockNumbers, seller \in Sellers :
       \E c \in SignBuyer(worm, amount, nftAddress, exchanger, blockNumber, seller) :
         Returned(c)

SignSeller1Step ==
  /\ running
  /\ \E amount \in Amounts, nftAddress \in NFTAddresses, exchanger \in Exchangers,
        blockNumber \in BlockNumbers :
       \E c \in SignSeller1(worm, amount, nftAddress, exchanger, blockNumber) :
         Returned(c)

SignSeller2Step ==
  /\ running
  /\ \E amount \in Amounts, royalty \in Royalties, metaURL \in MetaURLs,
        exclusiveFlag \in ExclusiveFlags, exchanger \in Exchangers,
        blockNumber \in BlockNumbers :
       \E c \in SignSeller2(worm, amount, royalty, metaURL, exclusiveFlag,
                             exchanger, blockNumber) :
         Returned(c)

SignExchangerStep ==
  /\ running
  /\ \E exchangerOwner \in ExchangerOwners, to \in Tos, blockNumber \in BlockNumbers :
       \E c \in SignExchanger(worm, exchangerOwner, to, blockNumber) : Returned(c)

SignDelegateStep ==
  /\ running
  /\ \E address \in Addresses, pledgeAcoount \in PledgeAccounts :
       \E c \in SignDelegate(worm, address, pledgeAcoount) : Returned(c)

Next ==
  \/ NewClientStep
  \/ SignStep
  \/ SignBuyerStep
  \/ SignSeller1Step
  \/ SignSeller2Step
  \/ SignExchangerStep
  \/ SignDelegateStep

Spec == Init /\ [][Next]_vars

\* The callers of Callers, interleaved statement by statement.
EnterStep == \E p \in Callers : Enter(p)
ParseKeyStep == \E p \in Callers : ParseKey(p)
BuildMsgStep == \E p \in Callers : BuildMsg(p)
CallSignStep == \E p \in Callers : CallSign(p)
BiasStep == \E p \in Callers : Bias(p)
MarshalPayloadStep == \E p \in Callers : MarshalPayload(p)

NextConc ==
  \/ EnterStep
  \/ ParseKeyStep
  \/ BuildMsgStep
  \/ CallSignStep
  \/ BiasStep
  \/ MarshalPayloadStep

SpecConc == Init /\ [][NextConc]_vars

\* An RPC-backed invocation ends with record r; a fault on the nil connection
\* is a panic, which ends the process.
RPCReturned(r) ==
  /\ rpc' = r
  /\ running' = (running /\ ~r.fault)
  /\ UNCHANGED <<worm, last, dialed, procs>>

CloseConnectStep ==
  /\ running
  /\ \E r \in CloseConnect(worm) : RPCReturned(r)

ChainIDStep ==
  /\ running
  /\ \E r \in ChainID(worm) : RPCReturned(r)

BlockNumberStep ==
  /\ running
  /\ \E r \in BlockNumber(worm) : RPCReturned(r)

TransactionInBlockStep ==
  /\ running
  /\ \E blockHash \in TxHashes, index \in Blocks :
       \E r \in TransactionInBlock(worm, blockHash, index) : RPCReturned(r)

PendingNonceAtStep ==
  /\ running
  /\ \E account \in Accounts :
       \E r \in PendingNonceAt(worm, account) : RPCReturned(r)

SuggestGasPriceStep ==
  /\ running
  /\ \E r \in SuggestGasPrice(worm) : RPCReturned(r)

SendTransactionStep ==
  /\ running
  /\ \E tx \in Txs :
       \E r \in SendTransaction(worm, tx) : RPCReturned(r)

NetworkIDStep ==
  /\ running
  /\ \E r \in NetworkID(worm) : RPCReturned(r)

BalanceStep ==
  /\ running
  /\ \E account \in Accounts :
       \E r \in Balance(worm, account) : RPCReturned(r)

BalanceAtStep ==
  /\ running
  /\ \E account \in Accounts, blockNumber \in BigBlockNumbers :
       \E r \in BalanceAt(worm, account, blockNumber) : RPCReturned(r)

TransactionReceiptStep ==
  /\ running
  /\ \E txHash \in TxHashes :
       \E r \in TransactionReceipt(worm, txHash) : RPCReturned(r)

GetValidatorsStep ==
  /\ running
  /\ \E blockNumber \in Blocks :
       \E r \in GetValidators(worm, blockNumber) : RPCReturned(r)

GetAccountInfoStep ==
  /\ running
  /\ \E address \in Accounts, block \in Blocks :
       \E r \in GetAccountInfo(worm, address, block) : RPCReturned(r)

GetBlockBeneficiaryAddressByNumberStep ==
  /\ running
  /\ \E block \in Blocks :
       \E r \in GetBlockBeneficiaryAddressByNumber(worm, block) : RPCReturned(r)

QueryMinerProxyStep ==
  /\ running
  /\ \E number \in Blocks, account \in Accounts :
       \E r \in QueryMinerProxy(worm, number, account) : RPCReturned(r)

GetActiveLivePoolStep ==
  /\ running
  /\ \E number \in Blocks :
       \E r \in GetActiveLivePool(worm, number) : RPCReturned(r)

NextRPC ==
  \/ NewClientStep
  \/ CloseConnectStep
  \/ ChainIDStep
  \/ BlockNumberStep
  \/ TransactionInBlockStep
  \/ PendingNonceAtStep
  \/ SuggestGasPriceStep
  \/ SendTransactionStep
  \/ NetworkIDStep
  \/ BalanceStep
  \/ BalanceAtStep
  \/ TransactionReceiptStep
  \/ GetValidatorsStep
  \/ GetAccountInfoStep
  \/ GetBlockBeneficiaryAddressByNumberStep
  \/ QueryMinerProxyStep
  \/ GetActiveLivePoolStep

SpecRPC == Init /\ [][NextRPC]_vars

---------------------------------------------------------------------------
(* The receiving side: recovery of the signer of a digest from a           *)
(* signature in the 27/28 convention.                                      *)

\* The address of the public key of a private key.
PubkeyToAddress(priKey) == <<"address", priKey>>

\* The signer's address, <<>> when the signature is not 65 bytes or its
\* recovery id is not 27 or 28; for a digest other than the signed one,
\* the address of some unrelated key.
RecoverAddress(digest, sig) ==
  IF Len(sig) # RecoveryIDOffset + 1 THEN <<>>
  ELSE IF sig[RecoveryIDOffset + 1] \notin {RecoveryBias, RecoveryBias + 1} THEN <<>>
  ELSE IF sig[1].d = digest THEN PubkeyToAddress(sig[1].k)
  ELSE <<"address", sig[1].k, sig[1].d, digest>>

---------------------------------------------------------------------------
(* What the claims are stated over.                                        *)

RoleOps == {"SignBuyer", "SignSeller1", "SignSeller2", "SignExchanger",
            "SignDelegate"}
PayloadOps == RoleOps \ {"SignDelegate"}

\* The field strings one after the other, with no delimiter.
RECURSIVE Concat(_)
Concat(fields) ==
  IF fields = <<>> THEN "" ELSE Head(fields) \o Concat(Tail(fields))

\* The number of positions in which two tuples of equal length differ.
DiffCount(a, b) == Cardinality({i \in 1..Len(a) : a[i] # b[i]})

\* The signature an invocation handed back, as its caller reads it.
ReturnedSignature(c) ==
  IF c.op = "Sign" THEN c.ret
  ELSE IF c.op = "SignDelegate" THEN HexDecode(c.ret)
  ELSE HexDecode(c.ret.Sig)

\* C1: the message a role operation signs is its field strings concatenated
\* in the declared (parameter) order, nothing between and nothing added, and
\* the digest handed to the primitive is SignHash of exactly that message.
C1_SignedMessageIsConcatenation ==
  (last.op \in RoleOps /\ last.msgs > 0) =>
    /\ last.msgs = 1
    /\ last.msg = Concat(last.args)
    /\ last.signs = 1
    /\ last.digest = SignHash(Concat(last.args))

C1_Witness ==
  /\ last.op = "SignBuyer"
  /\ last.err = Nil
  /\ last.args = <<"0xde0", "0x02", "0x8b", "0xa", "0x00">>
  /\ last.msg = "0xde00x020x8b0xa0x00"

C3_SingleFieldSensitivity ==
  [][(/\ last.op \in RoleOps
      /\ last'.op = last.op
      /\ last.msgs = 1
      /\ last'.msgs = 1
      /\ DiffCount(last.args, last'.args) = 1)
       => (/\ last'.msg # last.msg
           /\ last'.digest # last.digest
           /\ last.err = Nil =>
                RecoverAddress(last'.digest, ReturnedSignature(last))
                  # PubkeyToAddress(last.held))]_vars

\* The buyer scenario: seller "" has been signed and seller "0x00" is next.
C3_Witness ==
  /\ last.op = "SignBuyer"
  /\ last.err = Nil
  /\ last.args = <<"0xde0", "0x02", "0x8b", "0xa", "">>
  /\ ENABLED (/\ SignBuyerStep
              /\ last'.args = <<"0xde0", "0x02", "0x8b", "0xa", "0x00">>
              /\ last'.msgs = 1)

\* s without its i-th element.
RemoveAt(s, i) == SubSeq(s, 1, i - 1) \o SubSeq(s, i + 1, Len(s))

\* C4: two tuples of one role operation that are not equal position by
\* position give different messages and digests.
C4_AnyMutationChangesMessage ==
  [][(/\ last.op \in RoleOps
      /\ last'.op = last.op
      /\ last.msgs = 1
      /\ last'.msgs = 1
      /\ last'.args # last.args)
       => (last'.msg # last.msg /\ last'.digest # last.digest)]_vars

\* C5: a tuple with an empty string at some position and the tuple of a
\* schema with one field fewer that lacks exactly that position give
\* different messages; so SignBuyer with seller "" and SignSeller1 on the
\* same first four fields.
C5_NoFieldElision ==
  [][(/\ last.op \in RoleOps
      /\ last'.op \in RoleOps
      /\ last.msgs = 1
      /\ last'.msgs = 1
      /\ \E i \in 1..Len(last.args) :
           last.args[i] = "" /\ last'.args = RemoveAt(last.args, i))
       => last'.msg # last.msg]_vars

\* C6: two different role operations never sign the same message.
C6_NoCrossKindSubstitution ==
  [][(/\ last.op \in RoleOps
      /\ last'.op \in RoleOps
      /\ last'.op # last.op
      /\ last.msgs = 1
      /\ last'.msgs = 1)
       => (last'.msg # last.msg /\ last'.digest # last.digest)]_vars

\* C7: a signature handed back without error is 65 bytes and its last byte
\* is the primitive's recovery id, 0 or 1, plus 27: so 27 or 28.
C7_RecoveryIdNormalized ==
  (last.op # "none" /\ last.err = Nil) =>
    LET sig == ReturnedSignature(last)
    IN /\ Len(sig) = 65
       /\ last.v \in {<<0>>, <<1>>}
       /\ sig[65] = last.v[1] + 27
       /\ sig[65] \in {27, 28}

C7_Witness ==
  /\ last.op = "SignDelegate"
  /\ last.err = Nil
  /\ last.v = <<1>>
  /\ ReturnedSignature(last)[65] = 28

\* The key an invocation is to sign with: Sign's argument, otherwise the key
\* its receiver holds.  The message it is to sign: Sign's data, otherwise
\* the concatenated fields.
SignerKey(c) == IF c.op = "Sign" THEN c.args[2] ELSE c.held
Message(c) == IF c.op = "Sign" THEN c.args[1] ELSE Concat(c.args)

\* Messages to recover against.
SomeMessages ==
  Datas \cup {a \o p : a \in Addresses, p \in PledgeAccounts}
        \cup {o \o t \o b : o \in ExchangerOwners, t \in Tos, b \in BlockNumbers}

\* C8: the signature handed back recovers, against the digest of the message
\* signed, the address of the key signed with, and against the digest of any
\* other message not that address.
C8_SignatureCorrectness ==
  (last.op # "none" /\ last.err = Nil) =>
    LET sig == ReturnedSignature(last)
    IN /\ RecoverAddress(SignHash(Message(last)), sig)
            = PubkeyToAddress(SignerKey(last))
       /\ \A m \in SomeMessages \ {Message(last)} :
            RecoverAddress(SignHash(m), sig) # PubkeyToAddress(SignerKey(last))

\* Sign with a key other than the one the wallet holds.
C8_Witness ==
  /\ last.op = "Sign"
  /\ last.err = Nil
  /\ last.held = buyerPriKey
  /\ last.args = <<"0xde0", sellerPriKey>>
  /\ RecoverAddress(SignHash("0xde0"), last.ret) = PubkeyToAddress(sellerPriKey)

\* C9: an invocation parses the key at most once and invokes the primitive
\* at most once; with a malformed key it returns the parse error and nil,
\* invokes no primitive and marshals nothing; a failure of the primitive is
\* returned as the error, with nil.
C9_KeyErrors ==
  last.op # "none" =>
    /\ last.parses <= 1
    /\ last.signs <= 1
    /\ SignerKey(last) \notin WellFormedKeys =>
         /\ last.err = ErrInvalidKey
         /\ last.ret = <<>>
         /\ last.msgs = 0
         /\ last.signs = 0
         /\ last.marshals = 0
    /\ (last.signs > 0 /\ last.v = <<>>) =>
         /\ last.err = ErrSignFailed
         /\ last.ret = <<>>
         /\ last.marshals = 0

C9_Witness ==
  /\ last.op = "SignExchanger"
  /\ last.held = exchangeAddress1
  /\ last.parses = 1
  /\ last.err = ErrInvalidKey

\* The field values of a payload, in the declared order of its operation.
PayloadFields(c) ==
  LET p == c.ret
  IN CASE c.op = "SignBuyer" ->
            <<p.Amount, p.NFTAddress, p.Exchanger, p.BlockNumber, p.Seller>>
       [] c.op = "SignSeller1" ->
            <<p.Amount, p.NFTAddress, p.Exchanger, p.BlockNumber>>
       [] c.op = "SignSeller2" ->
            <<p.Amount, p.Royalty, p.MetaURL, p.ExclusiveFlag, p.Exchanger,
              p.BlockNumber>>
       [] c.op = "SignExchanger" -> <<p.ExchangerOwner, p.To, p.BlockNumber>>

\* C10: the payload's field values are the arguments, byte for byte, they
\* concatenate to the signed message, and its Sig is "0x" and the hex digits
\* of the 65-byte signature.
C10_PayloadCarriesSignedFields ==
  (last.op \in PayloadOps /\ last.err = Nil) =>
    /\ PayloadFields(last) = last.args
    /\ Concat(PayloadFields(last)) = last.msg
    /\ last.ret.Sig[1] = "0x"
    /\ Len(HexDecode(last.ret.Sig)) = 65
    /\ RecoverAddress(last.digest, HexDecode(last.ret.Sig))
         = PubkeyToAddress(last.held)

\* The field values a role operation's result carries: those of the
\* marshalled struct, and none for SignDelegate, whose result is the hex
\* text of the signature alone.
ReturnedFields(c) ==
  IF c.op \in PayloadOps THEN PayloadFields(c) ELSE <<>>

\* C11: the unit a role operation hands back carries, next to the 65-byte
\* signature, every field that was signed, so that the signed message can be
\* rebuilt from the unit alone; for SignDelegate as for the other four.
\* (Stated for arguments that are valid UTF-8.)
C11_SelfContainedUnit ==
  (/\ last.op \in RoleOps
   /\ last.err = Nil
   /\ \A i \in 1..Len(last.args) : JSONString(last.args[i]) = last.args[i])
    => /\ Len(ReturnedSignature(last)) = 65
       /\ ReturnedFields(last) = last.args
       /\ Concat(ReturnedFields(last)) = last.msg

\* The signing operations.
SignOps == RoleOps \cup {"Sign"}

\* C12: a client made with an empty rawurl was made without dialing and holds
\* no connection; a client holds a connection only if it was made with a
\* non-empty rawurl, by one dial; and a signing invocation, on any client,
\* issues no RPC gateway call and leaves the client as it is.
C12_WalletOnlyClient ==
  /\ []((running /\ dialed.rawurl = "") => (dialed.dials = 0 /\ worm.c = Nil))
  /\ [](worm.c # Nil => (dialed.rawurl # "" /\ dialed.dials = 1))
  /\ [][(last' # last /\ last'.op \in SignOps)
          => (rpc' = rpc /\ rpc'.calls = 0 /\ worm' = worm /\ dialed' = dialed)]_vars

\* A wallet-only client that has signed as buyer.
C12_Witness ==
  /\ running
  /\ dialed.rawurl = ""
  /\ worm.c = Nil
  /\ last.op = "SignBuyer"
  /\ last.err = Nil
  /\ rpc.calls = 0

C14_ReceiptOutcomes ==
  (rpc.op = "TransactionReceipt" /\ ~rpc.fault) =>
    /\ rpc.calls = 1
    /\ (rpc.gerr = Nil /\ rpc.reply = "null") =>
         (rpc.ret = Nil /\ rpc.err = NotFound)
    /\ (rpc.gerr = Nil /\ rpc.reply # "null") =>
         (rpc.reply = "value" /\ rpc.ret = "value" /\ rpc.err = Nil)
    /\ rpc.gerr # Nil => (rpc.err = rpc.gerr /\ rpc.err # NotFound)

\* The receipt of a hash the node does not know.
C14_Witness ==
  /\ rpc.op = "TransactionReceipt"
  /\ rpc.args = <<"0x5a">>
  /\ rpc.reply = "null"
  /\ rpc.ret = Nil
  /\ rpc.err = NotFound

\* The resource queries.
ResourceQueries ==
  {"TransactionReceipt", "TransactionInBlock", "GetAccountInfo", "GetValidators",
   "GetBlockBeneficiaryAddressByNumber", "QueryMinerProxy", "GetActiveLivePool"}

\* C15: a resource query whose call succeeds with a null result returns
\* NotFound, and no resource query returns a nil result with a nil error.
C15_MissingResourceIsNotFound ==
  (rpc.op \in ResourceQueries /\ ~rpc.fault) =>
    /\ (rpc.gerr = Nil /\ rpc.reply = "null") => rpc.err = NotFound
    /\ ~(rpc.ret = Nil /\ rpc.err = Nil)

\* The operations that call worm.c.CallContext.
GatewayOps ==
  {"ChainID", "BlockNumber", "TransactionInBlock", "PendingNonceAt",
   "SuggestGasPrice", "SendTransaction", "NetworkID", "Balance", "BalanceAt",
   "TransactionReceipt", "GetValidators", "GetAccountInfo",
   "GetBlockBeneficiaryAddressByNumber", "QueryMinerProxy", "GetActiveLivePool"}

\* C16, as stated: every invocation of an RPC-backed operation (that
\* returns) issues exactly one gateway call, and a failed call's error is
\* returned unchanged.
C16_ExactlyOneCall ==
  (rpc.op \in GatewayOps /\ ~rpc.fault) =>
    /\ rpc.calls = 1
    /\ rpc.gerr # Nil => rpc.err = rpc.gerr

\* An invocation that returns before any gateway call: SendTransaction of a
\* transaction that tx.MarshalBinary cannot encode.
ReturnsBeforeCall(r) ==
  r.op = "SendTransaction" /\ MarshalBinary(r.args[1]).err # Nil

\* C16, amended: an invocation issues at most one gateway call, and exactly
\* one on a connected client unless it is SendTransaction of a transaction
\* that cannot be encoded, which returns the encoding error without a call;
\* the error of a failed call is returned unchanged; an invocation that
\* follows one of the same operation and arguments issues its own call.
C16_OneCallNoRetryNoCache ==
  /\ [](rpc.op \in GatewayOps =>
          /\ rpc.calls <= 1
          /\ (~rpc.fault /\ ~ReturnsBeforeCall(rpc)) => rpc.calls = 1
          /\ ReturnsBeforeCall(rpc) =>
               (rpc.calls = 0 /\ rpc.err = ErrEncode /\ ~rpc.fault)
          /\ rpc.fault => (rpc.calls = 0 /\ worm.c = Nil)
          /\ rpc.gerr # Nil => rpc.err = rpc.gerr)
  /\ [][(/\ rpc.op \in GatewayOps
         /\ rpc'.op = rpc.op
         /\ rpc'.args = rpc.args
         /\ rpc' # rpc
         /\ ~rpc'.fault
         /\ ~ReturnsBeforeCall(rpc'))
          => rpc'.calls = 1]_vars

\* SendTransaction whose gateway call failed, right after a SendTransaction
\* of the same transaction that succeeded.
C16_Witness ==
  /\ rpc.op = "SendTransaction"
  /\ rpc.args = <<"tx">>
  /\ rpc.calls = 1
  /\ rpc.err = Nil
  /\ ENABLED (/\ SendTransactionStep
              /\ rpc'.args = rpc.args
              /\ rpc'.calls = 1
              /\ rpc'.gerr = "connection refused"
              /\ rpc'.err = "connection refused")

\* The RPC-backed operations that return a pointer or a slice.
PointerQueries ==
  {"ChainID", "SuggestGasPrice", "NetworkID", "Balance", "BalanceAt",
   "TransactionReceipt", "TransactionInBlock", "GetAccountInfo", "GetValidators",
   "GetBlockBeneficiaryAddressByNumber", "QueryMinerProxy", "GetActiveLivePool"}

\* C17: an operation that returns a non-nil error returns a nil result: the
\* signing operations and the pointer-returning queries.
C17_NoPartialSuccess ==
  /\ (last.op # "none" /\ last.err # Nil) => last.ret = <<>>
  /\ (rpc.op \in PointerQueries /\ ~rpc.fault /\ rpc.err # Nil) => rpc.ret = Nil

\* C18: with a well-formed key SignBuyer, SignSeller1, SignSeller2 and
\* SignExchanger reject no tuple of field strings: every invocation builds
\* its message and invokes the primitive, and whenever the primitive gives a
\* signature the operation returns a payload and a nil error; the only error
\* is the primitive's own.
C18_NoFieldValidation ==
  (last.op \in PayloadOps /\ last.held \in WellFormedKeys) =>
    /\ last.msgs = 1
    /\ last.signs = 1
    /\ last.v # <<>> => (last.err = Nil /\ last.ret # <<>> /\ last.marshals = 1)
    /\ last.v = <<>> => last.err = ErrSignFailed

\* SignBuyer with amount, nftAddress and seller empty.
C18_Witness ==
  /\ last.op = "SignBuyer"
  /\ last.args = <<"", "", "0x8b", "0xa", "">>
  /\ last.held = buyerPriKey
  /\ last.err = Nil
  /\ PayloadFields(last) = last.args

\* C19: a signing invocation, whether it succeeds or fails, leaves the key
\* the wallet holds and the connection of the client as they were; so the
\* client always holds the key and the connection NewClient gave it.
C19_SigningLeavesClient ==
  /\ [][(last' # last /\ last'.op \in SignOps) => worm' = worm]_vars
  /\ [](running => (/\ worm.priKey = dialed.priKey
                    /\ (worm.c = Nil) = (dialed.rawurl = "")))

\* A connected client made with the buyer's key, after Sign failed on
\* another key.
C19_Witness ==
  /\ running
  /\ dialed.priKey = buyerPriKey
  /\ worm.priKey = buyerPriKey
  /\ worm.c # Nil
  /\ last.op = "Sign"
  /\ last.key = exchangeAddress1
  /\ last.err # Nil

\* C20, as stated: after a failed dial the process has ended; NewClient
\* hands back a client holding whatever key it was given; and every signing
\* invocation on a wallet that holds a malformed key fails.
C20_FatalDialAndEverySigningFails ==
  /\ dialed.err # Nil => ~running
  /\ running => worm.priKey = dialed.priKey
  /\ (last.op \in SignOps /\ last.held \notin WellFormedKeys) =>
       (last.err # Nil /\ last.ret = <<>>)

\* C20, amended: a failed dial ends the process, after which nothing is
\* invoked; a client that exists holds the key NewClient was given, malformed
\* or not, and a connection if rawurl was not empty; on a wallet that holds a
\* malformed key every role operation fails with the parse error, while Sign
\* fails or not by the key passed to it.
C20_FatalDialNoKeyValidation ==
  /\ [](dialed.err # Nil => ~running)
  /\ [][running]_vars
  /\ [](running => (/\ worm.priKey = dialed.priKey
                    /\ dialed.rawurl # "" => worm.c # Nil))
  /\ []((last.op \in RoleOps /\ last.held \notin WellFormedKeys) =>
          (last.err = ErrInvalidKey /\ last.ret = <<>>))
  /\ [](last.op = "Sign" =>
          ((last.err = ErrInvalidKey) = (last.args[2] \notin WellFormedKeys)))

\* A connected client made with an address as key, as in
\* TestVoteOfficialNFTByApprovedExchanger: SignExchanger on it has failed, and
\* a further NewClient can end the process.
C20_Witness ==
  /\ running
  /\ dialed.priKey = exchangeAddress1
  /\ dialed.rawurl = endpoint
  /\ worm.c # Nil
  /\ last.op = "SignExchanger"
  /\ last.held = exchangeAddress1
  /\ last.err = ErrInvalidKey
  /\ ENABLED (NewClientStep /\ ~running' /\ dialed'.err # Nil)

\* C21: Sign parses and signs with the key passed to it, never the key the
\* wallet holds: what it does and returns is what it does and returns on a
\* wallet holding any other key; the role operations parse and sign with the
\* key the wallet holds.
C21_SignUsesArgumentKey ==
  /\ last.op = "Sign" =>
       /\ last.key = last.args[2]
       /\ \A k \in Keys :
            [last EXCEPT !.held = k]
              \in Sign([priKey |-> k, c |-> Nil], last.args[1], last.args[2])
       /\ last.err = Nil => last.ret[1].k = last.args[2]
  /\ last.op \in RoleOps =>
       /\ last.key = last.held
       /\ last.err = Nil => ReturnedSignature(last)[1].k = last.held

\* Sign with the seller's key on the wallet that holds the buyer's.
C21_Witness ==
  /\ last.op = "Sign"
  /\ last.held = buyerPriKey
  /\ last.args[2] = sellerPriKey
  /\ last.err = Nil
  /\ last.ret[1].k = sellerPriKey
  /\ worm.priKey = buyerPriKey

\* A step that is an invocation of an RPC-backed operation: the client stays
\* and either the record of the invocation changes or the process ends.
RPCInvoked ==
  /\ worm' = worm
  /\ dialed' = dialed
  /\ rpc'.op # "none"
  /\ (rpc' # rpc \/ (running /\ ~running'))

\* C22, as stated: on a client with no connection every invocation of an
\* RPC-backed operation faults and returns no error value.
C22_EveryOperationFaults ==
  [][(worm.c = Nil /\ RPCInvoked)
       => (rpc'.fault /\ ~running' /\ rpc'.err = Nil)]_vars

\* C22, amended: on a client with no connection every invocation of an
\* RPC-backed operation faults where it first uses the connection, with no
\* gateway call, no result and no error value, and ends the process; only
\* SendTransaction of a transaction that cannot be encoded returns, with the
\* encoding error, before it uses the connection.  No operation faults on a
\* client that has a connection.
C22_FaultOnNilConnection ==
  /\ [][(worm.c = Nil /\ RPCInvoked) =>
          IF ReturnsBeforeCall(rpc')
            THEN /\ ~rpc'.fault
                 /\ rpc'.err = ErrEncode
                 /\ rpc'.calls = 0
                 /\ running'
            ELSE /\ rpc'.fault
                 /\ ~running'
                 /\ rpc'.calls = 0
                 /\ rpc'.ret = Nil
                 /\ rpc'.err = Nil]_vars
  /\ [][(worm.c # Nil /\ RPCInvoked) => (~rpc'.fault /\ running')]_vars
  /\ [](rpc.fault => (worm.c = Nil /\ dialed.rawurl = "" /\ ~running))

\* CloseConnect has faulted on a wallet-only client.
C22_Witness ==
  /\ dialed.rawurl = ""
  /\ worm.c = Nil
  /\ rpc.op = "CloseConnect"
  /\ rpc.fault
  /\ ~running

====
